---- MODULE Spec2Model ----
(***************************************************************************)
(* plato-runner: the job dispatch and aggregation engine of src/index.js   *)
(* (lines 1-271).  One coordinating flow (run) walks the discovered        *)
(* manifests, resolves each module's owner, submits one or two analysis    *)
(* jobs per module to the worker pool, and joins them with Promise.all;    *)
(* every job completion merges its report into reportsMap; the summary     *)
(* pass and the report writers follow the join.                            *)
(***************************************************************************)
EXTENDS Integers, Sequences, FiniteSets, TLC

(***************************************************************************)
(* Bounds of the model.                                                    *)
(***************************************************************************)
\* the longest file list the discoverer returns
MaxFiles == 2
\* os.cpus().length of the machine the run is on
NumCpus == 2
\* the largest machine the size of the pool is computed for
MaxCpus == 8

(***************************************************************************)
(* Paths.  A path is its directory and the tokens of its base name, so     *)
(* that String.includes and path.dirname are computed, not assumed.        *)
(***************************************************************************)
Path(dir, base) == [dir |-> dir, base |-> base]

FilePaths ==
  { Path("a", <<"package.json">>),
    Path("a", <<"package.json", ".bak">>),
    Path("b", <<"package.json">>),
    Path("summary", <<"package.json">>),
    Path("a", <<"index", ".js">>) }

\* file.includes('package.json')
includes(file, needle) ==
  file.dir = needle \/ \E n \in DOMAIN file.base : file.base[n] = needle

\* path.dirname(currentModule)
dirname(file) == file.dir

\* the lists without repetition that fastglob can return
FileLists ==
  { s \in UNION { [1..n -> FilePaths] : n \in 0..MaxFiles } :
      \A x, y \in DOMAIN s : x # y => s[x] # s[y] }

\* files.filter(file => file.includes('package.json'))
RECURSIVE filterModules(_)
filterModules(files) ==
  IF files = <<>> THEN <<>>
  ELSE IF includes(Head(files), "package.json")
       THEN <<Head(files)>> \o filterModules(Tail(files))
       ELSE filterModules(Tail(files))

(***************************************************************************)
(* Manifests: the keywords and the name of a parsed package.json.  A name  *)
(* is the sequence of its tokens; named is FALSE where the manifest has no  *)
(* name field.                                                             *)
(***************************************************************************)
Manifests ==
  { [keywords |-> {}, named |-> TRUE, name |-> <<"my", "-", "app">>],
    [keywords |-> {"ember-addon"}, named |-> TRUE,
     name |-> <<"my", "-", "addon">>],
    [keywords |-> {"ember-addon"}, named |-> TRUE,
     name |-> <<"ember", "-", "tests", "-", "helpers">>],
    [keywords |-> {"ember-addon", "ember-engine"}, named |-> FALSE,
     name |-> <<>>] }

getModuleType(moduleData) ==
  IF "ember-engine" \in moduleData.keywords THEN "engines" ELSE "addons"

(***************************************************************************)
(* Titles.  A title is a sequence of tokens, as a name is; a directory is  *)
(* one token.                                                              *)
(***************************************************************************)
Alphanumeric == {"a", "b", "summary", "my", "app", "addon", "ember",
                 "tests", "helpers"}

\* module.replace(/[^a-zA-Z0-9]/g, '_')
sanitize(tokens) ==
  [n \in DOMAIN tokens |->
     IF tokens[n] \in Alphanumeric THEN tokens[n] ELSE "_"]

\* json.name ?? module.replace(/[^a-zA-Z0-9]/g, '_')
moduleTitle(moduleData, module) ==
  IF moduleData.named THEN moduleData.name ELSE sanitize(<<module>>)

\* `${title}-tests`
testsTitle(title) == title \o <<"-", "tests">>

(***************************************************************************)
(* The worker's choice of the analyzer's exclusion, by the title alone.    *)
(* An exclusion is the set of the alternatives of its regular expression.  *)
(***************************************************************************)
exclude == {"app", "styles", "build", ".eyeglass_cache"}

\* title.includes('tests')
titleIncludes(title, needle) == \E n \in DOMAIN title : title[n] = needle

\* the exclude of platoArgs
platoExclude(title) ==
  IF titleIncludes(title, "tests")
  THEN exclude \cup {"addon", "index.js"}
  ELSE exclude \cup {"tests"}

(***************************************************************************)
(* The classifier's process: whether exec reported an error, and the       *)
(* tokens of what it wrote to stdout and to stderr.                        *)
(***************************************************************************)
ClassifierRuns ==
  { [ran |-> TRUE, error |-> FALSE, stdout |-> <<"Team1", "\n">>, stderr |-> <<>>],
    [ran |-> TRUE, error |-> TRUE, stdout |-> <<>>, stderr |-> <<"\n">>],
    [ran |-> TRUE, error |-> FALSE, stdout |-> <<"Error", "\n">>, stderr |-> <<>>],
    [ran |-> TRUE, error |-> TRUE, stdout |-> <<>>, stderr |-> <<"Error", "\n">>],
    [ran |-> TRUE, error |-> FALSE, stdout |-> <<"summary", "\n">>, stderr |-> <<>>] }

\* no classifier process was run
NoRun == [ran |-> FALSE, error |-> FALSE, stdout |-> <<>>, stderr |-> <<>>]

\* resolve(stdout ? stdout : stderr), whatever error is
execShellCommand(run) == IF run.stdout # <<>> THEN run.stdout ELSE run.stderr

Whitespace == {"\n", " "}

\* String.prototype.trim
RECURSIVE trim(_)
trim(s) ==
  IF s = <<>> THEN s
  ELSE IF Head(s) \in Whitespace THEN trim(Tail(s))
  ELSE IF s[Len(s)] \in Whitespace THEN trim(SubSeq(s, 1, Len(s) - 1))
  ELSE s

\* a classifier whose error marker is never seen
hasErrorMarker_never(out) == FALSE

\* moduleOwner.includes('Error')
hasErrorMarker(out) == \E n \in DOMAIN out : out[n] = "Error"

\* the trimmed output taken as the label whatever its length
ownerLabel_asIs(out) == IF Len(out) = 0 THEN "" ELSE out[1]

\* moduleOwner.length ? moduleOwner : 'UNKOWN'
ownerLabel(out) == IF Len(out) = 0 THEN "UNKOWN" ELSE out[1]

(***************************************************************************)
(* JavaScript Maps: the entries in insertion order.                        *)
(***************************************************************************)
has(m, k) == \E n \in DOMAIN m : m[n].k = k
get(m, k) == m[CHOOSE n \in DOMAIN m : m[n].k = k].v
set(m, k, v) ==
  IF has(m, k)
  THEN [n \in DOMAIN m |-> IF m[n].k = k THEN [k |-> k, v |-> v] ELSE m[n]]
  ELSE Append(m, [k |-> k, v |-> v])

\* an array of per-file records, as the summary accumulators hold
List(items) == [tag |-> "list", items |-> items]
\* a nested Map
MapOf(entries) == [tag |-> "map", entries |-> entries]

(***************************************************************************)
(* The analyzer's reduction, plato.getOverviewReport: totals and rounded   *)
(* averages over the records, and the records themselves.                  *)
(***************************************************************************)
NaN == 0 - 1

RECURSIVE totalSloc(_)
totalSloc(records) ==
  IF records = <<>> THEN 0 ELSE Head(records).sloc + totalSloc(Tail(records))

\* Math.round(total / n)
round(total, n) == IF n = 0 THEN NaN ELSE (2 * total + n) \div (2 * n)

\* a reduction that keeps the totals and drops the records
getOverviewReport_summaryOnly(records) ==
  [tag |-> "overview",
   summary |-> [total |-> totalSloc(records),
                average |-> round(totalSloc(records), Len(records))],
   reports |-> <<>>]

getOverviewReport(records) ==
  [tag |-> "overview",
   summary |-> [total |-> totalSloc(records),
                average |-> round(totalSloc(records), Len(records))],
   reports |-> records]

\* the report the analyzer returns for job j: one record per analysed file,
\* two files in a module's body and one in its tests
Report(j, n) == [f \in 1..n |-> [job |-> j, file |-> f, sloc |-> f]]
Reports(j, type) == { Report(j, IF type = "tests" THEN 1 ELSE 2) }

(***************************************************************************)
(* State.                                                                  *)
(***************************************************************************)
VARIABLES
  owners,            \* argv.owners is set
  unhandled,         \* what the runtime does with an unhandled rejection
  pc,                \* where run() is
  files,             \* what fastglob returned
  modules,           \* the filtered file list
  i,                 \* the for-await loop's position in modules
  json,              \* the manifest of the module in hand
  moduleOwner,       \* the owner of the module in hand
  processedModules,
  reportsMap,        \* the aggregation tree
  inspections,       \* _inspections: the submitted jobs and their promises
  barrier,           \* the Promise.all over _inspections
  rejection,         \* why run() or the promise chain rejected
  emitted,           \* the writer calls so far
  exited,
  exitCode,
  moduleLog,         \* what the loop has read of each module so far: the
                     \* manifest, and whether fs.stat found a tests directory
  reduced,           \* the summary entries in the order _reportsMap reduced them
  flows              \* the earlier variant's per-module async flows

vars == <<owners, unhandled, pc, files, modules, i, json, moduleOwner,
          processedModules, reportsMap, inspections, barrier, rejection,
          emitted, exited, exitCode, moduleLog, reduced, flows>>

\* Math.ceil(os.cpus().length * .75)
workersFor(cpus) == (3 * cpus + 3) \div 4

\* const pool = workerpool.pool(..., { maxWorkers: Math.ceil(cpus * .75) })
maxWorkers == workersFor(NumCpus)

NoManifest == [keywords |-> {}, named |-> FALSE, name |-> <<>>]

Init ==
  /\ owners \in BOOLEAN
  /\ unhandled \in {"throw", "warn"}
  /\ pc = "glob"
  /\ files = <<>>
  /\ modules = <<>>
  /\ i = 1
  /\ json = NoManifest
  /\ moduleOwner = ""
  /\ processedModules = 0
  /\ reportsMap = <<[k |-> "summary", v |-> List(<<>>)]>>
  /\ inspections = <<>>
  /\ barrier = "none"
  /\ rejection = "none"
  /\ emitted = <<>>
  /\ exited = FALSE
  /\ exitCode = 0
  /\ moduleLog = <<>>
  /\ reduced = <<>>
  /\ flows = <<>>

(***************************************************************************)
(* The worker pool.  pool.exec queues the task and starts it at once when  *)
(* fewer than maxWorkers tasks are running; a finished task frees its      *)
(* worker for the head of the queue.                                       *)
(***************************************************************************)
running(ins) == { n \in DOMAIN ins : ins[n].status = "executing" }
queued(ins) == { n \in DOMAIN ins : ins[n].status = "queued" }
firstQueued(ins) == CHOOSE n \in queued(ins) : \A o \in queued(ins) : n <= o

\* a pool that starts every task it is given
dispatch_unbounded(ins) ==
  [n \in DOMAIN ins |->
     IF ins[n].status = "queued"
     THEN [ins[n] EXCEPT !.status = "executing",
                         !.exclude = platoExclude(ins[n].title)]
     ELSE ins[n]]

RECURSIVE dispatch(_)
dispatch(ins) ==
  IF Cardinality(running(ins)) < maxWorkers /\ queued(ins) # {}
  THEN dispatch([ins EXCEPT ![firstQueued(ins)].status = "executing",
                            ![firstQueued(ins)].exclude =
                               platoExclude(ins[firstQueued(ins)].title)])
  ELSE ins

\* inspectAndProcessModule up to the return of pool.exec(...).then(...)
inspectAndProcessModule(ins, owner, type, currentModule, title) ==
  dispatch(Append(ins, [owner |-> owner, type |-> type,
                        currentModule |-> currentModule,
                        module |-> dirname(currentModule),
                        title |-> title, exclude |-> {},
                        status |-> "queued", error |-> "none",
                        report |-> <<>>]))

(***************************************************************************)
(* The completion callback of inspectAndProcessModule: four statements on  *)
(* reportsMap, each of which can throw a TypeError and leave the earlier   *)
(* ones done.                                                              *)
(***************************************************************************)
\* a leaf write that appends the report to what the leaf holds
recordLeaf_append(tree, owner, type, module, report) ==
  LET o == get(tree, owner)
      c == get(o.entries, type)
      old == IF has(c.entries, module) /\ module # "summary"
             THEN get(c.entries, module).reports ELSE <<>>
  IN set(tree, owner,
         MapOf(set(o.entries, type,
                   MapOf(set(c.entries, module, getOverviewReport(old \o report))))))

\* reportsMap.get(owner).get(type).set(module, plato.getOverviewReport(report))
recordLeaf(tree, owner, type, module, report) ==
  LET o == get(tree, owner)
      c == get(o.entries, type)
  IN set(tree, owner,
         MapOf(set(o.entries, type,
                   MapOf(set(c.entries, module, getOverviewReport(report))))))

\* a push that reaches the accumulator of every category of the owner
pushCategory_everyCategory(tree, owner, type, report) ==
  LET o == get(tree, owner)
      pushed(c) ==
        IF c.tag = "map" /\ has(c.entries, "summary")
             /\ get(c.entries, "summary").tag = "list"
        THEN MapOf(set(c.entries, "summary",
                       List(get(c.entries, "summary").items \o report)))
        ELSE c
  IN set(tree, owner,
         MapOf([n \in DOMAIN o.entries |->
                  [k |-> o.entries[n].k, v |-> pushed(o.entries[n].v)]]))

\* reportsMap.get(owner).get(type).get('summary').push(...report)
pushCategory(tree, owner, type, report) ==
  LET o == get(tree, owner)
      c == get(o.entries, type)
      s == get(c.entries, "summary")
  IN set(tree, owner,
         MapOf(set(o.entries, type,
                   MapOf(set(c.entries, "summary", List(s.items \o report))))))

\* reportsMap.get(owner).get('summary').push(...report)
pushOwner(tree, owner, report) ==
  LET o == get(tree, owner)
      s == get(o.entries, "summary")
  IN set(tree, owner, MapOf(set(o.entries, "summary", List(s.items \o report))))

\* reportsMap.get('summary').push(...report)
pushGlobal(tree, report) ==
  set(tree, "summary", List(get(tree, "summary").items \o report))

\* a callback that returns after its second statement
merge_firstHalf(tree, owner, type, module, report) ==
  IF get(tree, owner).tag # "map"
  THEN [tree |-> tree, ok |-> FALSE]
  ELSE LET t1 == recordLeaf(tree, owner, type, module, report)
           s1 == get(get(get(t1, owner).entries, type).entries, "summary")
       IN IF s1.tag # "list"
          THEN [tree |-> t1, ok |-> FALSE]
          ELSE [tree |-> pushCategory(t1, owner, type, report), ok |-> TRUE]

\* the callback: the tree it leaves and whether it returned or threw
\* (a .get or .push on a value that has none is a TypeError)
merge(tree, owner, type, module, report) ==
  IF get(tree, owner).tag # "map"
  THEN [tree |-> tree, ok |-> FALSE]
  ELSE LET t1 == recordLeaf(tree, owner, type, module, report)
           s1 == get(get(get(t1, owner).entries, type).entries, "summary")
       IN IF s1.tag # "list"
          THEN [tree |-> t1, ok |-> FALSE]
          ELSE LET t2 == pushCategory(t1, owner, type, report)
               IN IF get(get(t2, owner).entries, "summary").tag # "list"
                  THEN [tree |-> t2, ok |-> FALSE]
                  ELSE LET t3 == pushOwner(t2, owner, report)
                       IN IF get(t3, "summary").tag # "list"
                          THEN [tree |-> t3, ok |-> FALSE]
                          ELSE [tree |-> pushGlobal(t3, report), ok |-> TRUE]

(***************************************************************************)
(* The summary pass, _reportsMap: every entry named 'summary' at the three *)
(* levels is replaced by the reduction of the records pushed to it.        *)
(***************************************************************************)
summarizeType(entries) ==
  [n \in DOMAIN entries |->
     IF entries[n].k = "summary"
     THEN [k |-> "summary", v |-> getOverviewReport(entries[n].v.items)]
     ELSE entries[n]]

summarizeOwner(entries) ==
  [n \in DOMAIN entries |->
     IF entries[n].k = "summary"
     THEN [k |-> "summary", v |-> getOverviewReport(entries[n].v.items)]
     ELSE [k |-> entries[n].k, v |-> MapOf(summarizeType(entries[n].v.entries))]]

\* a pass that reduces the global summary and leaves the owners' subtrees
summarize_globalOnly(tree) ==
  [n \in DOMAIN tree |->
     IF tree[n].k = "summary"
     THEN [k |-> "summary", v |-> getOverviewReport(tree[n].v.items)]
     ELSE tree[n]]

\* the summary entries in the order the three nested forEach meet them
RECURSIVE visitType(_, _, _)
visitType(owner, type, entries) ==
  IF entries = <<>> THEN <<>>
  ELSE (IF Head(entries).k = "summary"
        THEN <<[level |-> "category", owner |-> owner, category |-> type]>>
        ELSE <<>>)
       \o visitType(owner, type, Tail(entries))

RECURSIVE visitOwner(_, _)
visitOwner(owner, entries) ==
  IF entries = <<>> THEN <<>>
  ELSE (IF Head(entries).k = "summary"
        THEN <<[level |-> "owner", owner |-> owner, category |-> ""]>>
        ELSE visitType(owner, Head(entries).k, Head(entries).v.entries))
       \o visitOwner(owner, Tail(entries))

\* a pass that reduces the global summary after every owner
RECURSIVE visitOrder_globalLast(_)
visitOrder_globalLast(tree) ==
  IF tree = <<>> THEN <<>>
  ELSE IF Head(tree).k = "summary"
       THEN visitOrder_globalLast(Tail(tree))
              \o <<[level |-> "global", owner |-> "", category |-> ""]>>
       ELSE visitOwner(Head(tree).k, Head(tree).v.entries)
              \o visitOrder_globalLast(Tail(tree))

RECURSIVE visitOrder(_)
visitOrder(tree) ==
  IF tree = <<>> THEN <<>>
  ELSE (IF Head(tree).k = "summary"
        THEN <<[level |-> "global", owner |-> "", category |-> ""]>>
        ELSE visitOwner(Head(tree).k, Head(tree).v.entries))
       \o visitOrder(Tail(tree))

summarize(tree) ==
  [n \in DOMAIN tree |->
     IF tree[n].k = "summary"
     THEN [k |-> "summary", v |-> getOverviewReport(tree[n].v.items)]
     ELSE [k |-> tree[n].k, v |-> MapOf(summarizeOwner(tree[n].v.entries))]]

\* the subtree made at the first sight of an owner
newOwner ==
  MapOf(<<[k |-> "addons", v |-> MapOf(<<[k |-> "summary", v |-> List(<<>>)]>>)],
          [k |-> "engines", v |-> MapOf(<<[k |-> "summary", v |-> List(<<>>)]>>)],
          [k |-> "tests", v |-> MapOf(<<[k |-> "summary", v |-> List(<<>>)]>>)],
          [k |-> "summary", v |-> List(<<>>)]>>)

\* a subtree set at every sight of the owner
ensureOwner_always(tree, owner) == set(tree, owner, newOwner)

\* if (!reportsMap.has(moduleOwner)) reportsMap.set(moduleOwner, new Map(...))
ensureOwner(tree, owner) ==
  IF has(tree, owner) THEN tree ELSE set(tree, owner, newOwner)

(***************************************************************************)
(* Promises.                                                               *)
(***************************************************************************)
anyRejected(ins) == \E n \in DOMAIN ins : ins[n].status = "rejected"
allFulfilled(ins) == \A n \in DOMAIN ins : ins[n].status = "fulfilled"

\* a join that is fulfilled with the first fulfilled promise
promiseAll_any(ins) ==
  IF anyRejected(ins) THEN "rejected"
  ELSE IF ins = <<>> \/ \E n \in DOMAIN ins : ins[n].status = "fulfilled"
       THEN "resolved"
  ELSE "pending"

\* Promise.all over the inspections: rejected with the first rejection,
\* fulfilled when every one is
promiseAll(ins) ==
  IF anyRejected(ins) THEN "rejected"
  ELSE IF allFulfilled(ins) THEN "resolved"
  ELSE "pending"

\* a rejection nobody handles: run() is called without a catch
Unhandled(reason) ==
  /\ rejection' = IF rejection = "none" THEN reason ELSE rejection
  /\ exited' = (unhandled = "throw")
  /\ exitCode' = IF unhandled = "throw" THEN 1 ELSE exitCode

(***************************************************************************)
(* run()                                                                   *)
(***************************************************************************)
\* run() without the check of files.length
Glob_noEmptyCheck ==
  /\ ~exited /\ pc = "glob"
  /\ \E fl \in FileLists :
       /\ files' = fl
       /\ pc' = "loop"
       /\ modules' = filterModules(fl)
  /\ UNCHANGED <<flows, reduced, moduleLog, owners, unhandled, i, json, moduleOwner, processedModules,
                 reportsMap, inspections, barrier, emitted, rejection, exited,
                 exitCode>>

\* fastglob, the empty check and the manifest filter
Glob ==
  /\ ~exited /\ pc = "glob"
  /\ \E fl \in FileLists :
       /\ files' = fl
       /\ IF Len(fl) = 0
          THEN /\ pc' = "rejected"
               /\ Unhandled("nofiles")
               /\ UNCHANGED modules
          ELSE /\ pc' = "loop"
               /\ modules' = filterModules(fl)
               /\ UNCHANGED <<rejection, exited, exitCode>>
  /\ UNCHANGED <<flows, reduced, moduleLog, owners, unhandled, i, json, moduleOwner, processedModules,
                 reportsMap, inspections, barrier, emitted>>

\* the loop body from the owner's label to the await of fs.stat
Schedule(out, data) ==
  IF hasErrorMarker(out)
  THEN /\ pc' = "rejected"
       /\ Unhandled("classifier")
       /\ UNCHANGED <<moduleOwner, reportsMap, inspections>>
  ELSE /\ pc' = "stat"
       /\ moduleOwner' = ownerLabel(out)
       /\ reportsMap' = ensureOwner(reportsMap, ownerLabel(out))
       /\ inspections' = inspectAndProcessModule(
                            inspections, ownerLabel(out), getModuleType(data),
                            modules[i],
                            moduleTitle(data, dirname(modules[i])))
       /\ UNCHANGED <<rejection, exited, exitCode>>

\* a loop that starts the classifier and goes on to the next module
\* without awaiting it
ReadManifest_detached ==
  /\ ~exited /\ pc = "loop" /\ i <= Len(modules)
  /\ \E data \in Manifests :
       /\ moduleLog' = Append(moduleLog, [currentModule |-> modules[i],
                                          json |-> data, tests |-> "unknown",
                                          classifier |-> NoRun])
       /\ IF "ember-addon" \notin data.keywords
          THEN /\ i' = i + 1
               /\ UNCHANGED <<pc, json, moduleOwner, processedModules,
                              reportsMap, inspections, rejection, exited,
                              exitCode>>
          ELSE /\ processedModules' = processedModules + 1
               /\ json' = data
               /\ IF owners
                  THEN /\ i' = i + 1
                       /\ UNCHANGED <<pc, moduleOwner, reportsMap, inspections,
                                      rejection, exited, exitCode>>
                  ELSE /\ i' = i
                       /\ Schedule(trim(<<"ALL">>), data)
  /\ UNCHANGED <<flows, reduced, owners, unhandled, files, modules, barrier, emitted>>

\* JSON.parse of the manifest and the addon test; without --owners the
\* owner is 'ALL' and the body goes on to the first job
ReadManifest ==
  /\ ~exited /\ pc = "loop" /\ i <= Len(modules)
  /\ \E data \in Manifests :
       /\ moduleLog' = Append(moduleLog, [currentModule |-> modules[i],
                                          json |-> data, tests |-> "unknown",
                                          classifier |-> NoRun])
       /\ IF "ember-addon" \notin data.keywords
          THEN /\ i' = i + 1
               /\ UNCHANGED <<pc, json, moduleOwner, processedModules,
                              reportsMap, inspections, rejection, exited,
                              exitCode>>
          ELSE /\ processedModules' = processedModules + 1
               /\ json' = data
               /\ i' = i
               /\ IF owners
                  THEN /\ pc' = "getModuleOwner"
                       /\ UNCHANGED <<moduleOwner, reportsMap, inspections,
                                      rejection, exited, exitCode>>
                  ELSE Schedule(trim(<<"ALL">>), data)
  /\ UNCHANGED <<flows, reduced, owners, unhandled, files, modules, barrier, emitted>>

\* getModuleOwner settling only once the pool is idle
OwnerResolved_afterDrain ==
  /\ ~exited /\ pc = "getModuleOwner"
  /\ \A n \in DOMAIN inspections :
       inspections[n].status \in {"fulfilled", "rejected"}
  /\ \E run \in ClassifierRuns :
       /\ Schedule(trim(execShellCommand(run)), json)
       /\ moduleLog' = [moduleLog EXCEPT ![Len(moduleLog)].classifier = run]
  /\ UNCHANGED <<flows, reduced, owners, unhandled, files, modules, i, json,
                 processedModules, barrier, emitted>>

\* the classifier's process ends: getModuleOwner returns or throws
OwnerResolved ==
  /\ ~exited /\ pc = "getModuleOwner"
  /\ \E run \in ClassifierRuns :
       /\ Schedule(trim(execShellCommand(run)), json)
       /\ moduleLog' = [moduleLog EXCEPT ![Len(moduleLog)].classifier = run]
  /\ UNCHANGED <<flows, reduced, owners, unhandled, files, modules, i, json,
                 processedModules, barrier, emitted>>

\* a loop that submits the tests job whatever fs.stat found
StatResolved_always ==
  /\ ~exited /\ pc = "stat"
  /\ \E testsDirExists \in BOOLEAN :
       /\ inspections' = inspectAndProcessModule(
                           inspections, moduleOwner, "tests", modules[i],
                           testsTitle(moduleTitle(json, dirname(modules[i]))))
       /\ moduleLog' = [moduleLog EXCEPT ![Len(moduleLog)].tests =
                          IF testsDirExists THEN "present" ELSE "absent"]
  /\ i' = i + 1
  /\ pc' = "loop"
  /\ json' = NoManifest
  /\ moduleOwner' = ""
  /\ UNCHANGED <<flows, reduced, owners, unhandled, files, modules, processedModules,
                 reportsMap, barrier, rejection, emitted, exited, exitCode>>

\* fs.stat of the tests directory settles: the tests job, then the next module
StatResolved ==
  /\ ~exited /\ pc = "stat"
  /\ \E testsDirExists \in BOOLEAN :
       /\ inspections' = IF testsDirExists
                         THEN inspectAndProcessModule(
                                inspections, moduleOwner, "tests", modules[i],
                                testsTitle(moduleTitle(json,
                                                       dirname(modules[i]))))
                         ELSE inspections
       /\ moduleLog' = [moduleLog EXCEPT ![Len(moduleLog)].tests =
                          IF testsDirExists THEN "present" ELSE "absent"]
  /\ i' = i + 1
  /\ pc' = "loop"
  /\ json' = NoManifest
  /\ moduleOwner' = ""
  /\ UNCHANGED <<flows, reduced, owners, unhandled, files, modules, processedModules,
                 reportsMap, barrier, rejection, emitted, exited, exitCode>>

\* the loop is over: Promise.all(_inspections).then(...).then(...)
Join ==
  /\ ~exited /\ pc = "loop" /\ i > Len(modules)
  /\ pc' = "join"
  /\ barrier' = promiseAll(inspections)
  /\ UNCHANGED <<flows, reduced, moduleLog, owners, unhandled, files, modules, i, json, moduleOwner,
                 processedModules, reportsMap, inspections, rejection, emitted,
                 exited, exitCode>>

(***************************************************************************)
(* A job ends in its worker: the promise of pool.exec settles and, when it *)
(* is fulfilled, the completion callback merges the report.                *)
(***************************************************************************)
settle(ins, j, status, error, report) ==
  dispatch([ins EXCEPT ![j].status = status, ![j].error = error,
                       ![j].report = report])

JobSettled(j, status) ==
  /\ barrier' = IF barrier = "pending" THEN promiseAll(inspections') ELSE barrier
  /\ IF status = "rejected" /\ barrier # "rejected"
     THEN Unhandled("job")
     ELSE UNCHANGED <<rejection, exited, exitCode>>

JobComplete ==
  /\ ~exited
  /\ \E j \in running(inspections) :
       \/ \E report \in Reports(j, inspections[j].type) :
            LET job == inspections[j]
                m == merge(reportsMap, job.owner, job.type, job.module, report)
                status == IF m.ok THEN "fulfilled" ELSE "rejected"
            IN /\ reportsMap' = m.tree
               /\ inspections' = settle(inspections, j, status,
                                        IF m.ok THEN "none" ELSE "TypeError",
                                        report)
               /\ JobSettled(j, status)
       \/ /\ inspections' = settle(inspections, j, "rejected", "analyzer", <<>>)
          /\ UNCHANGED reportsMap
          /\ JobSettled(j, "rejected")
  /\ UNCHANGED <<flows, reduced, moduleLog, owners, unhandled, pc, files, modules, i, json, moduleOwner,
                 processedModules, emitted>>

(***************************************************************************)
(* After the join: the summary pass, the writers, process.exit().          *)
(***************************************************************************)
reportsMapPass ==
  /\ ~exited /\ pc = "join" /\ barrier = "resolved"
  /\ reportsMap' = summarize(reportsMap)
  /\ reduced' = visitOrder(reportsMap)
  /\ pc' = "writeOwnerReports"
  /\ UNCHANGED <<flows, moduleLog, owners, unhandled, files, modules, i, json, moduleOwner,
                 processedModules, inspections, barrier, rejection, emitted,
                 exited, exitCode>>

\* the owners in the order writeOwnerReports meets them
RECURSIVE ownerKeys(_)
ownerKeys(tree) ==
  IF tree = <<>> THEN <<>>
  ELSE IF Head(tree).k # "summary"
       THEN <<Head(tree).k>> \o ownerKeys(Tail(tree))
       ELSE ownerKeys(Tail(tree))

\* one turn of the loop of writeOwnerReports
writeOwnerReports ==
  /\ ~exited /\ pc = "writeOwnerReports"
  /\ Len(emitted) < Len(ownerKeys(reportsMap))
  /\ LET owner == ownerKeys(reportsMap)[Len(emitted) + 1]
     IN emitted' = Append(emitted,
                          [level |-> "owner", owner |-> owner,
                           summary |-> get(get(reportsMap, owner).entries,
                                           "summary")])
  /\ UNCHANGED <<flows, reduced, moduleLog, owners, unhandled, pc, files, modules, i, json, moduleOwner,
                 processedModules, reportsMap, inspections, barrier, rejection,
                 exited, exitCode>>

writeOverallReport ==
  /\ ~exited /\ pc = "writeOwnerReports"
  /\ Len(emitted) = Len(ownerKeys(reportsMap))
  /\ emitted' = Append(emitted, [level |-> "overall", owner |-> "",
                                 summary |-> get(reportsMap, "summary")])
  /\ pc' = "exit"
  /\ UNCHANGED <<flows, reduced, moduleLog, owners, unhandled, files, modules, i, json, moduleOwner,
                 processedModules, reportsMap, inspections, barrier, rejection,
                 exited, exitCode>>

\* process.exit()
ProcessExit ==
  /\ ~exited /\ pc = "exit"
  /\ exited' = TRUE
  /\ exitCode' = 0
  /\ pc' = "done"
  /\ UNCHANGED <<flows, reduced, moduleLog, owners, unhandled, files, modules, i, json, moduleOwner,
                 processedModules, reportsMap, inspections, barrier, rejection,
                 emitted>>

\* run() rejected under a runtime that only warns, and no worker was ever
\* started: nothing keeps the event loop alive
EventLoopDrained ==
  /\ ~exited /\ pc = "rejected" /\ inspections = <<>>
  /\ exited' = TRUE
  /\ exitCode' = 0
  /\ UNCHANGED <<flows, reduced, moduleLog, owners, unhandled, pc, files, modules, i, json, moduleOwner,
                 processedModules, reportsMap, inspections, barrier, rejection,
                 emitted>>

Next ==
  \/ Glob
  \/ ReadManifest
  \/ OwnerResolved
  \/ StatResolved
  \/ Join
  \/ JobComplete
  \/ reportsMapPass
  \/ writeOwnerReports
  \/ writeOverallReport
  \/ ProcessExit
  \/ EventLoopDrained

Spec == Init /\ [][Next]_vars

(***************************************************************************)
(* The earlier variant of run() (src/unnamed/part_002, lines 214-282):     *)
(* modules.map(async currentModule => ...) starts one flow per module, and *)
(* the flows interleave at every await; the reports are merged in one loop *)
(* after Promise.all of the flows.                                         *)
(***************************************************************************)
NewFlow == [pc |-> "readFile", json |-> NoManifest, moduleOwner |-> "",
            tests |-> FALSE, results |-> <<>>]

VariantInit ==
  /\ owners \in BOOLEAN
  /\ unhandled \in {"throw", "warn"}
  /\ pc = "map"
  /\ \E fl \in FileLists :
       /\ files = fl
       /\ modules = filterModules(fl)
       /\ Len(modules) > 0
  /\ i = 1
  /\ json = NoManifest
  /\ moduleOwner = ""
  /\ processedModules = 0
  /\ reportsMap = <<[k |-> "summary", v |-> List(<<>>)]>>
  /\ inspections = <<>>
  /\ barrier = "none"
  /\ rejection = "none"
  /\ emitted = <<>>
  /\ exited = FALSE
  /\ exitCode = 0
  /\ moduleLog = <<>>
  /\ reduced = <<>>
  /\ flows = [m \in 1..Len(modules) |-> NewFlow]

\* await fs.readFile settles in flow m: a module that is no addon returns
\* undefined
VReadFile(m) ==
  /\ ~exited /\ pc = "map" /\ flows[m].pc = "readFile"
  /\ \E data \in Manifests :
       IF "ember-addon" \in data.keywords
       THEN /\ processedModules' = processedModules + 1
            /\ flows' = [flows EXCEPT ![m].json = data,
                                      ![m].pc = "getModuleOwner"]
       ELSE /\ flows' = [flows EXCEPT ![m].pc = "returned"]
            /\ UNCHANGED processedModules
  /\ UNCHANGED <<owners, unhandled, pc, files, modules, i, json, moduleOwner,
                 reportsMap, inspections, barrier, rejection, emitted, exited,
                 exitCode, moduleLog, reduced>>

\* await getModuleOwner settles in flow m; the has/set that follows runs in
\* the same turn of the event loop
VOwnerResolved(m) ==
  /\ ~exited /\ pc = "map" /\ flows[m].pc = "getModuleOwner"
  /\ \E run \in IF owners THEN ClassifierRuns ELSE {NoRun} :
       LET out == IF owners THEN trim(execShellCommand(run)) ELSE <<"ALL">>
       IN IF hasErrorMarker(out)
          THEN /\ flows' = [flows EXCEPT ![m].pc = "threw"]
               /\ Unhandled("classifier")
               /\ UNCHANGED reportsMap
          ELSE /\ flows' = [flows EXCEPT ![m].moduleOwner = ownerLabel(out),
                                         ![m].pc = "stat"]
               /\ reportsMap' = ensureOwner(reportsMap, ownerLabel(out))
               /\ UNCHANGED <<rejection, exited, exitCode>>
  /\ UNCHANGED <<owners, unhandled, pc, files, modules, i, json, moduleOwner,
                 processedModules, inspections, barrier, emitted, moduleLog,
                 reduced>>

\* await fs.stat(testsDir) settles in flow m
VStatResolved(m) ==
  /\ ~exited /\ pc = "map" /\ flows[m].pc = "stat"
  /\ \E testsDirExists \in BOOLEAN :
       flows' = [flows EXCEPT ![m].tests = testsDirExists,
                              ![m].pc = "inspecting"]
  /\ UNCHANGED <<owners, unhandled, pc, files, modules, i, json, moduleOwner,
                 processedModules, reportsMap, inspections, barrier, rejection,
                 emitted, exited, exitCode, moduleLog, reduced>>

\* Promise.all(inpsections) of flow m settles: the flow returns its results
\* or rejects with the analyzer's error
VInspected(m) ==
  /\ ~exited /\ pc = "map" /\ flows[m].pc = "inspecting"
  /\ \/ /\ flows' = [flows EXCEPT
                       ![m].results = IF flows[m].tests
                                      THEN <<Report(2 * m - 1, 2),
                                             Report(2 * m, 1)>>
                                      ELSE <<Report(2 * m - 1, 2)>>,
                       ![m].pc = "returned"]
        /\ UNCHANGED <<rejection, exited, exitCode>>
     \/ /\ flows' = [flows EXCEPT ![m].pc = "threw"]
        /\ Unhandled("job")
  /\ UNCHANGED <<owners, unhandled, pc, files, modules, i, json, moduleOwner,
                 processedModules, reportsMap, inspections, barrier, emitted,
                 moduleLog, reduced>>

\* the two groups of four statements for one flow's results
mergeFlow(tree, f, module) ==
  LET body == merge(tree, f.moduleOwner, getModuleType(f.json), module,
                    f.results[1])
  IN IF ~body.ok \/ Len(f.results) = 1
     THEN body
     ELSE merge(body.tree, f.moduleOwner, "tests", module, f.results[2])

\* for (let ownerReports of platoReports): the flows' results in the order
\* of modules, up to the first statement that throws
RECURSIVE mergeFlows(_, _)
mergeFlows(tree, k) ==
  IF k = 0 THEN [tree |-> tree, ok |-> TRUE]
  ELSE LET before == mergeFlows(tree, k - 1)
       IN IF ~before.ok \/ flows[k].results = <<>>
          THEN before
          ELSE mergeFlow(before.tree, flows[k], dirname(modules[k]))

\* Promise.all(_inspections) is fulfilled: the merge loop
VMerge ==
  /\ ~exited /\ pc = "map"
  /\ \A m \in DOMAIN flows : flows[m].pc = "returned"
  /\ LET merged == mergeFlows(reportsMap, Len(flows))
     IN /\ reportsMap' = merged.tree
        /\ IF merged.ok
           THEN /\ pc' = "merged"
                /\ UNCHANGED <<rejection, exited, exitCode>>
           ELSE /\ pc' = "rejected"
                /\ Unhandled("merge")
  /\ UNCHANGED <<owners, unhandled, files, modules, i, json, moduleOwner,
                 processedModules, inspections, barrier, emitted, moduleLog,
                 reduced, flows>>

VariantNext ==
  \/ \E m \in DOMAIN flows : VReadFile(m)
  \/ \E m \in DOMAIN flows : VOwnerResolved(m)
  \/ \E m \in DOMAIN flows : VStatResolved(m)
  \/ \E m \in DOMAIN flows : VInspected(m)
  \/ VMerge

VariantSpec == VariantInit /\ [][VariantNext]_vars

(***************************************************************************)
(* Vocabulary of the properties.                                           *)
(***************************************************************************)
Jobs == DOMAIN inspections
settled(n) == inspections[n].status \in {"fulfilled", "rejected"}
sameKey(x, y) ==
  /\ inspections[x].owner = inspections[y].owner
  /\ inspections[x].type = inspections[y].type
  /\ inspections[x].module = inspections[y].module

\* the owners that have a subtree, and the three categories of each
OwnerNodes == { n \in DOMAIN reportsMap : reportsMap[n].v.tag = "map" }
Categories == {"addons", "engines", "tests"}
ownerSummary(n) == get(reportsMap[n].v.entries, "summary")
category(n, c) == get(reportsMap[n].v.entries, c).entries
categorySummary(n, c) == get(category(n, c), "summary")
globalSummary == get(reportsMap, "summary")
leafAt(tree, owner, type, module) ==
  get(get(get(tree, owner).entries, type).entries, module)

hasLeaf(tree, owner, type, module) ==
  /\ get(tree, owner).tag = "map"
  /\ has(get(get(tree, owner).entries, type).entries, module)

\* the records of the leaves of a Map of leaves, in the Map's order
RECURSIVE leafRecords(_)
leafRecords(entries) ==
  IF entries = <<>> THEN <<>>
  ELSE IF Head(entries).k = "summary" THEN leafRecords(Tail(entries))
       ELSE Head(entries).v.reports \o leafRecords(Tail(entries))

ownerLeafRecords(n) ==
  leafRecords(category(n, "addons")) \o leafRecords(category(n, "engines"))
    \o leafRecords(category(n, "tests"))

RECURSIVE treeLeafRecords(_)
treeLeafRecords(k) ==
  IF k = 0 THEN <<>>
  ELSE treeLeafRecords(k - 1)
         \o (IF k \in OwnerNodes THEN ownerLeafRecords(k) ELSE <<>>)

\* the same records, each as often, in any order
occurrences(s, x) == Cardinality({ n \in DOMAIN s : s[n] = x })
sameRecords(s, t) ==
  /\ Len(s) = Len(t)
  /\ \A n \in DOMAIN s : occurrences(s, s[n]) = occurrences(t, s[n])

\* the summary pass has run
summarized == pc \in {"writeOwnerReports", "exit", "done"}
\* getModuleOwner threw
classifierFailed == pc = "rejected" /\ files # <<>>

(***************************************************************************)
(* C1.  The join barrier (Promise.all over the submitted jobs) is passed,  *)
(* resolved or rejected, only when every submitted job has reached a       *)
(* terminal state.  Promise.all rejects with the first rejection, so this  *)
(* fails while a sibling of a failed job is still executing.               *)
(***************************************************************************)
C1_BarrierOnlyAfterAllSettled ==
  barrier \in {"resolved", "rejected"} => \A n \in Jobs : settled(n)

RECURSIVE jobRecords(_, _)
jobRecords(k, owner) ==
  IF k = 0 THEN <<>>
  ELSE jobRecords(k - 1, owner)
         \o (IF owner \in {"", inspections[k].owner}
             THEN inspections[k].report ELSE <<>>)

C3_EmitterAfterSummaryPass ==
  emitted # <<>> =>
    /\ barrier = "resolved"
    /\ summarized
    /\ \A n \in Jobs : inspections[n].status = "fulfilled"
    /\ globalSummary.tag = "overview"
    /\ \A o \in OwnerNodes :
         /\ ownerSummary(o).tag = "overview"
         /\ \A c \in Categories : categorySummary(o, c).tag = "overview"
    /\ \A e \in DOMAIN emitted :
         /\ emitted[e].summary.tag = "overview"
         /\ sameRecords(emitted[e].summary.reports,
                        jobRecords(Len(inspections), emitted[e].owner))

\* an owner's report was written for an owner with two jobs
C3_Witness ==
  \E e \in DOMAIN emitted :
    /\ emitted[e].level = "owner"
    /\ Cardinality({ n \in Jobs : inspections[n].owner = emitted[e].owner }) >= 2

(***************************************************************************)
(* C4.  After the summary pass every category summary is the reduction of  *)
(* the records of that category's leaves, every owner summary that of the  *)
(* leaves below the owner, the global summary that of all leaves.  Fails   *)
(* when a leaf was written twice (C6): the replaced report stays in the    *)
(* accumulators.                                                           *)
(***************************************************************************)
C4_SummaryIsReductionOverLeaves ==
  summarized =>
    /\ sameRecords(globalSummary.reports, treeLeafRecords(Len(reportsMap)))
    /\ globalSummary.summary.total = totalSloc(treeLeafRecords(Len(reportsMap)))
    /\ \A o \in OwnerNodes :
         /\ sameRecords(ownerSummary(o).reports, ownerLeafRecords(o))
         /\ ownerSummary(o).summary.total = totalSloc(ownerLeafRecords(o))
         /\ \A c \in Categories :
              /\ sameRecords(categorySummary(o, c).reports,
                             leafRecords(category(o, c)))
              /\ categorySummary(o, c).summary.total
                   = totalSloc(leafRecords(category(o, c)))

(***************************************************************************)
(* C5.  A completion that records a report under a key leaves, at that     *)
(* key, a single leaf made of the new report alone, whatever the leaf held *)
(* before.                                                                 *)
(***************************************************************************)
leafCount(tree, owner, type, module) ==
  LET c == get(get(tree, owner).entries, type).entries
  IN Cardinality({ n \in DOMAIN c : c[n].k = module })

C5_LeafWriteReplaces ==
  [][\A n \in Jobs :
       (inspections[n].status = "executing" /\ inspections'[n].status = "fulfilled")
         => LET job == inspections'[n]
            IN /\ leafAt(reportsMap', job.owner, job.type, job.module)
                    = getOverviewReport(job.report)
               /\ leafCount(reportsMap', job.owner, job.type, job.module) = 1]_vars

\* two completions have recorded under one key
C5_Witness ==
  \E x, y \in Jobs :
    /\ x # y /\ sameKey(x, y)
    /\ inspections[x].status = "fulfilled" /\ inspections[y].status = "fulfilled"

(***************************************************************************)
(* C6.  No double count: the records pushed to a category, to an owner and *)
(* to the global accumulator are those of the reports the leaves hold, so  *)
(* a report replaced at its leaf is not counted.  Fails: the callback      *)
(* pushes every report and never takes one back.                           *)
(***************************************************************************)
C6_NoDoubleCount ==
  /\ globalSummary.tag = "list"
       => Len(globalSummary.items) <= Len(treeLeafRecords(Len(reportsMap)))
  /\ \A o \in OwnerNodes :
       /\ ownerSummary(o).tag = "list"
            => Len(ownerSummary(o).items) <= Len(ownerLeafRecords(o))
       /\ \A c \in Categories :
            categorySummary(o, c).tag = "list"
              => Len(categorySummary(o, c).items) <= Len(leafRecords(category(o, c)))

(***************************************************************************)
(* C7.  No two scheduled jobs share owner, category and module directory.  *)
(* Fails: the manifest filter is a substring test (C22), so two files of   *)
(* one directory are both scheduled.                                       *)
(***************************************************************************)
C7_SingleWriterPerLeaf ==
  \A x, y \in Jobs : x # y => ~sameKey(x, y)

(***************************************************************************)
(* C8.  A job whose analyzer fails is recorded as a failed leaf, and the   *)
(* run goes on to the summary pass and the writers and ends with a         *)
(* non-zero exit.  Fails: the rejection is handled nowhere.                *)
(***************************************************************************)
C8_FailedJobRecoveredLocally ==
  \A n \in Jobs :
    inspections[n].error = "analyzer" =>
      /\ hasLeaf(reportsMap, inspections[n].owner, inspections[n].type,
                 inspections[n].module)
      /\ exited => (emitted # <<>> /\ exitCode # 0)

(***************************************************************************)
(* C9.  A failed job aborts nothing: when the process ends after an        *)
(* analyzer failure, every submitted job has settled and no later module   *)
(* of the list is left unscheduled.  Fails where the runtime ends the      *)
(* process on the unhandled rejection.                                     *)
(***************************************************************************)
C9_FailureDoesNotAbortSiblings ==
  ( /\ exited
    /\ rejection = "job"
    /\ \A n \in Jobs : inspections[n].error # "TypeError" )
  => /\ \A n \in Jobs : settled(n)
     /\ i >= Len(modules)

(***************************************************************************)
(* C10.  An error marker in the classifier's output aborts the run: no     *)
(* owner subtree is ever keyed by such an output, and once getModuleOwner  *)
(* has thrown no job of that module exists, the loop and the barrier are   *)
(* never reached again, no summary is reduced and no writer is called.     *)
(***************************************************************************)
C10_ClassifierErrorAborts ==
  /\ \A n \in DOMAIN reportsMap : reportsMap[n].k # "Error"
  /\ \A n \in Jobs : inspections[n].owner # "Error"
  /\ classifierFailed =>
       /\ i <= Len(modules)
       /\ \A n \in Jobs : inspections[n].currentModule # modules[i]
       /\ barrier = "none"
       /\ ~summarized
       /\ globalSummary.tag = "list"
       /\ \A o \in OwnerNodes : ownerSummary(o).tag = "list"
       /\ emitted = <<>>

\* the classifier failed on the second module, after the first one's job merged
C10_Witness ==
  /\ classifierFailed
  /\ i = 2
  /\ \E n \in Jobs : inspections[n].status = "fulfilled"

(***************************************************************************)
(* C11.  Cancellation on a fatal classifier error: when the process has    *)
(* ended because getModuleOwner threw, every job submitted before the      *)
(* error has reached a terminal state and no worker is still executing.    *)
(* Fails where the runtime ends the process on the unhandled rejection:    *)
(* nothing in run() waits for the jobs in flight.                          *)
(***************************************************************************)
C11_DrainBeforeAbort ==
  (classifierFailed /\ rejection = "classifier" /\ exited)
  => /\ \A n \in Jobs : settled(n)
     /\ running(inspections) = {}

(***************************************************************************)
(* C12.  Owner isolation: while the classifier runs for a module, the      *)
(* step in which getModuleOwner throws is enabled whatever the state of    *)
(* the jobs of earlier modules, and where the runtime ends the process on  *)
(* the unhandled rejection the process has ended as soon as it has thrown. *)
(***************************************************************************)
ClassifierAbort == OwnerResolved /\ pc' = "rejected"

C12_AbortNeedsNoJobCompletion ==
  /\ (pc = "getModuleOwner" /\ ~exited) => ENABLED ClassifierAbort
  /\ (classifierFailed /\ unhandled = "throw") => exited

\* the run was aborted for the second module while a job of the first one
\* was still executing
C12_Witness ==
  /\ classifierFailed
  /\ exited
  /\ i = 2
  /\ \E n \in Jobs : /\ inspections[n].status = "executing"
                     /\ inspections[n].currentModule = modules[1]

(***************************************************************************)
(* C13.  An empty glob expansion fails the run before any work: once the   *)
(* glob has answered with no file, run() has thrown 'No files to process', *)
(* no manifest was read, no owner was resolved, no job was submitted, the  *)
(* tree holds the empty global summary alone, and neither the barrier nor  *)
(* a writer was reached.                                                   *)
(***************************************************************************)
emptyGlob == pc # "glob" /\ files = <<>>

C13_EmptyGlobFailsFast ==
  emptyGlob =>
    /\ pc = "rejected"
    /\ rejection = "nofiles"
    /\ modules = <<>>
    /\ processedModules = 0
    /\ json = NoManifest
    /\ moduleOwner = ""
    /\ inspections = <<>>
    /\ reportsMap = <<[k |-> "summary", v |-> List(<<>>)]>>
    /\ barrier = "none"
    /\ emitted = <<>>

\* the run ended on the empty file list
C13_Witness ==
  /\ emptyGlob
  /\ exited
  /\ exitCode = 1

(***************************************************************************)
(* C14.  Leaf completeness after a successful run: the leaves of the tree  *)
(* are one at owner/category/directory for every module that was           *)
(* classified, one at owner/tests/directory for every such module whose    *)
(* tests directory exists, and no other; and every owner summary and the   *)
(* global summary hold the records of those leaves and no other record.    *)
(* Fails when two paths of one directory pass the manifest filter (C22):   *)
(* they share their leaves, and the summaries count both reports (C6).     *)
(***************************************************************************)
classified == { e \in DOMAIN moduleLog :
                  "ember-addon" \in moduleLog[e].json.keywords }
bodyJob(e) ==
  CHOOSE n \in Jobs : /\ inspections[n].currentModule = moduleLog[e].currentModule
                      /\ inspections[n].type # "tests"
expectedLeaves ==
  { <<inspections[bodyJob(e)].owner, getModuleType(moduleLog[e].json),
      dirname(moduleLog[e].currentModule)>> : e \in classified }
  \cup
  { <<inspections[bodyJob(e)].owner, "tests",
      dirname(moduleLog[e].currentModule)>> :
      e \in { d \in classified : moduleLog[d].tests = "present" } }
leavesOf(o, c) ==
  { <<reportsMap[o].k, c, category(o, c)[l].k>> :
      l \in { d \in DOMAIN category(o, c) : category(o, c)[d].k # "summary" } }
treeLeaves ==
  UNION { leavesOf(o, c) : o \in OwnerNodes, c \in Categories }

C14_LeafCompleteness ==
  summarized =>
    /\ treeLeaves = expectedLeaves
    /\ sameRecords(globalSummary.reports, treeLeafRecords(Len(reportsMap)))
    /\ \A o \in OwnerNodes :
         sameRecords(ownerSummary(o).reports, ownerLeafRecords(o))

(***************************************************************************)
(* C15.  Owner resolution is once per module, sequential, and before the   *)
(* module's jobs: the loop reads the modules one by one in the order of    *)
(* the list and never twice; the classifier runs for the module in hand    *)
(* alone, and while it runs every addon read before has its owner and its  *)
(* body job; and every job belongs to an addon whose owner was resolved,   *)
(* carries that owner, and did not exist while the classifier ran for its  *)
(* module.                                                                 *)
(***************************************************************************)
jobsOf(e) ==
  { n \in Jobs : inspections[n].currentModule = moduleLog[e].currentModule }

C15_OwnerResolvedOnceBeforeJobs ==
  /\ Len(moduleLog) \in {i - 1, i}
  /\ \A e \in DOMAIN moduleLog : moduleLog[e].currentModule = modules[e]
  /\ processedModules = Cardinality(classified)
  /\ pc = "getModuleOwner" =>
       /\ Len(moduleLog) = i
       /\ i \in classified
       /\ moduleOwner = ""
       /\ jobsOf(i) = {}
  /\ \A e \in classified :
       \/ \E n \in jobsOf(e) : inspections[n].type # "tests"
       \/ e = Len(moduleLog) /\ (pc = "getModuleOwner" \/ classifierFailed)
  /\ \A n \in Jobs :
       /\ inspections[n].owner # ""
       /\ has(reportsMap, inspections[n].owner)
       /\ \E e \in classified : n \in jobsOf(e)
       /\ \A m \in Jobs :
            inspections[m].currentModule = inspections[n].currentModule
              => inspections[m].owner = inspections[n].owner

\* the classifier runs for the second module while a job of the first one,
\* whose owner it gave, is executing
C15_Witness ==
  /\ pc = "getModuleOwner"
  /\ i = 2
  /\ \E n \in jobsOf(1) : /\ inspections[n].status = "executing"
                          /\ inspections[n].owner = "Team1"

(***************************************************************************)
(* C16.  Whenever a job is still to complete, the tree holds its owner's   *)
(* subtree: a Map at the owner's key with the three category Maps, each    *)
(* with a summary entry, and the owner's summary entry.  Fails for the     *)
(* owner label 'summary': reportsMap.has finds the global summary at that  *)
(* key and no subtree is made (C27).                                       *)
(***************************************************************************)
ownerSubtreeAt(tree, owner) ==
  /\ has(tree, owner)
  /\ get(tree, owner).tag = "map"
  /\ has(get(tree, owner).entries, "summary")
  /\ \A c \in Categories :
       /\ has(get(tree, owner).entries, c)
       /\ get(get(tree, owner).entries, c).tag = "map"
       /\ has(get(get(tree, owner).entries, c).entries, "summary")

C16_OwnerSubtreeBeforeMerge ==
  \A n \in Jobs :
    ~settled(n) => ownerSubtreeAt(reportsMap, inspections[n].owner)

(***************************************************************************)
(* C17.  Merges are mutually exclusive: every step that changes the tree   *)
(* is either the callback of one job alone, in which no other job settles, *)
(* no job is submitted and no owner subtree is made, and which, when it    *)
(* returns, has done all four updates; or the making of one owner subtree, *)
(* in which no job settles; or the summary pass.                           *)
(***************************************************************************)
accumulated(old, new, report) ==
  /\ old.tag = "list"
  /\ new.tag = "list"
  /\ new.items = old.items \o report

mergeOf(j) ==
  LET job == inspections'[j]
  IN /\ inspections[j].status = "executing"
     /\ inspections'[j].status \in {"fulfilled", "rejected"}
     /\ \A k \in Jobs \ {j} :
          (inspections'[k].status \in {"fulfilled", "rejected"}) <=> settled(k)
     /\ DOMAIN inspections' = Jobs
     /\ ownerKeys(reportsMap') = ownerKeys(reportsMap)
     /\ job.status = "fulfilled" =>
          /\ leafAt(reportsMap', job.owner, job.type, job.module)
               = getOverviewReport(job.report)
          /\ accumulated(
               get(get(get(reportsMap, job.owner).entries, job.type).entries,
                   "summary"),
               get(get(get(reportsMap', job.owner).entries, job.type).entries,
                   "summary"),
               job.report)
          /\ accumulated(get(get(reportsMap, job.owner).entries, "summary"),
                         get(get(reportsMap', job.owner).entries, "summary"),
                         job.report)
          /\ accumulated(get(reportsMap, "summary"),
                         get(reportsMap', "summary"), job.report)

subtreeCreation ==
  /\ \A k \in Jobs :
       (inspections'[k].status \in {"fulfilled", "rejected"}) <=> settled(k)
  /\ reportsMap' = Append(reportsMap, [k |-> moduleOwner', v |-> newOwner])

summaryPass ==
  /\ pc = "join" /\ pc' = "writeOwnerReports"
  /\ inspections' = inspections

C17_MergesMutuallyExclusive ==
  [][reportsMap' # reportsMap =>
       \/ \E j \in Jobs : mergeOf(j)
       \/ subtreeCreation
       \/ summaryPass]_vars

\* one job has merged while another one of its owner was in a worker and the
\* loop was waiting for the classifier
C17_Witness ==
  /\ pc = "getModuleOwner"
  /\ \E x, y \in Jobs :
       /\ inspections[x].status = "fulfilled"
       /\ inspections[y].status = "executing"
       /\ inspections[x].owner = inspections[y].owner

(***************************************************************************)
(* C18.  Bounded pool: the pool has ceil(0.75 x cpus) workers, at least    *)
(* one; never more jobs execute than there are workers; a submitted job is *)
(* held by the pool as queued or executing at once; a job is queued only   *)
(* while every worker is busy, and the queue is served in the order of     *)
(* submission.                                                             *)
(***************************************************************************)
C18_BoundedPool ==
  /\ \A cpus \in 1..MaxCpus :
       /\ workersFor(cpus) >= 1
       /\ 4 * workersFor(cpus) >= 3 * cpus
       /\ 4 * (workersFor(cpus) - 1) < 3 * cpus
  /\ Cardinality(running(inspections)) <= maxWorkers
  /\ ~exited =>
       /\ queued(inspections) # {}
            => Cardinality(running(inspections)) = maxWorkers
       /\ \A q \in queued(inspections) :
            \A n \in Jobs : n > q => inspections[n].status = "queued"

\* a job waits in the queue while every worker is busy
C18_Witness ==
  /\ queued(inspections) # {}
  /\ Cardinality(running(inspections)) = maxWorkers
  /\ pc = "loop"

(***************************************************************************)
(* C19.  A module contributes at most two jobs: none when its manifest     *)
(* lacks the addon keyword; else one body job under its own category,      *)
(* addons or engines (none yet while its owner is being resolved, none if  *)
(* the classifier failed), and one job under tests exactly when fs.stat    *)
(* found its tests directory.  Every job is one of these.                  *)
(***************************************************************************)
bodyJobs(e) == { n \in jobsOf(e) : inspections[n].type # "tests" }
testsJobs(e) == { n \in jobsOf(e) : inspections[n].type = "tests" }

C19_AtMostTwoJobsPerModule ==
  /\ \A e \in DOMAIN moduleLog :
       /\ Cardinality(jobsOf(e)) <= 2
       /\ e \notin classified => jobsOf(e) = {}
       /\ e \in classified =>
            /\ \A n \in bodyJobs(e) :
                 inspections[n].type = getModuleType(moduleLog[e].json)
            /\ Cardinality(bodyJobs(e)) =
                 IF e = Len(moduleLog) /\ (pc = "getModuleOwner" \/ classifierFailed)
                 THEN 0 ELSE 1
       /\ Cardinality(testsJobs(e)) =
            IF moduleLog[e].tests = "present" THEN 1 ELSE 0
       /\ \A b \in bodyJobs(e) : \A t \in testsJobs(e) : b < t
  /\ \A n \in Jobs : \E e \in DOMAIN moduleLog : n \in jobsOf(e)

\* the loop is over an engine with a tests directory, which gave two jobs,
\* and a manifest that is no addon, which gave none
C19_Witness ==
  /\ Len(moduleLog) = 2
  /\ i = 3
  /\ \E e, d \in DOMAIN moduleLog :
       /\ Cardinality(jobsOf(e)) = 2
       /\ \E n \in jobsOf(e) : inspections[n].type = "engines"
       /\ d \notin classified

(***************************************************************************)
(* C20.  The exclusion goes by the kind of the job alone: every job a      *)
(* worker has taken is analysed, when it is a body job, with the exclusion *)
(* that covers the tests subtree, and when it is a tests job, with the one *)
(* that covers the addon's code and the entry point.  Fails for a module   *)
(* whose title contains 'tests': the worker tells the kinds apart by the   *)
(* title.                                                                  *)
(***************************************************************************)
C20_ExclusionByJobKind ==
  \A n \in Jobs :
    inspections[n].status # "queued" =>
      inspections[n].exclude =
        IF inspections[n].type = "tests"
        THEN exclude \cup {"addon", "index.js"}
        ELSE exclude \cup {"tests"}

(***************************************************************************)
(* C21.  The summary pass is strictly bottom-up: every category summary of *)
(* an owner is reduced before that owner's summary, and every owner's      *)
(* summary before the global one.  Fails in its second half: the global    *)
(* entry is the first key of reportsMap and forEach meets it first.        *)
(***************************************************************************)
C21_StrictBottomUp ==
  \A a, b \in DOMAIN reduced :
    /\ ( /\ reduced[a].level = "category"
         /\ reduced[b].level = "owner"
         /\ reduced[a].owner = reduced[b].owner ) => a < b
    /\ (reduced[a].level = "owner" /\ reduced[b].level = "global") => a < b

(***************************************************************************)
(* C21, amended.  The pass reduces the global summary first, then owner by *)
(* owner the three category summaries and after them the owner's summary,  *)
(* each entry once; and every summary it writes is the reduction of the    *)
(* records pushed to that same entry, so no reduction reads a node that    *)
(* the pass writes.                                                        *)
(***************************************************************************)
C21_GlobalFirstThenOwnersBottomUp ==
  [][(pc = "join" /\ pc' = "writeOwnerReports") =>
       /\ reduced' # <<>>
       /\ reduced'[1].level = "global"
       /\ \A a, b \in DOMAIN reduced' :
            /\ (a # b) => reduced'[a] # reduced'[b]
            /\ ( /\ reduced'[a].level = "category"
                 /\ reduced'[b].level = "owner"
                 /\ reduced'[a].owner = reduced'[b].owner ) => a < b
       /\ globalSummary' = getOverviewReport(globalSummary.items)
       /\ \A o \in OwnerNodes :
            /\ \E b \in DOMAIN reduced' :
                 /\ reduced'[b].level = "owner"
                 /\ reduced'[b].owner = reportsMap[o].k
            /\ ownerSummary(o)' = getOverviewReport(ownerSummary(o).items)
            /\ \A c \in Categories :
                 /\ \E a \in DOMAIN reduced' :
                      /\ reduced'[a].level = "category"
                      /\ reduced'[a].owner = reportsMap[o].k
                      /\ reduced'[a].category = c
                 /\ categorySummary(o, c)'
                      = getOverviewReport(categorySummary(o, c).items)]_vars

\* the pass has reduced the summaries of two owners that both hold records
C21_Witness ==
  /\ summarized
  /\ Cardinality({ a \in DOMAIN reduced : reduced[a].level = "owner" }) = 2
  /\ \A o \in OwnerNodes : ownerSummary(o).reports # <<>>

(***************************************************************************)
(* C22.  Module filtering: the modules are exactly the discovered paths    *)
(* whose base name is package.json, in the order of discovery; only those  *)
(* with the addon keyword get jobs, and one without it neither gets a job  *)
(* nor fails the run.  Fails in its first part: the filter is a substring  *)
(* test on the whole path.                                                 *)
(***************************************************************************)
isManifest(file) == file.base = <<"package.json">>

C22_ManifestFilter ==
  /\ pc # "glob" =>
       /\ \A n \in DOMAIN modules : isManifest(modules[n])
       /\ \A n \in DOMAIN files :
            isManifest(files[n]) => \E m \in DOMAIN modules : modules[m] = files[n]
  /\ \A n \in Jobs : \E e \in classified : n \in jobsOf(e)
  /\ \A e \in DOMAIN moduleLog :
       (e \notin classified /\ e < i) => (jobsOf(e) = {} /\ rejection # "nofiles")

(***************************************************************************)
(* C23.  Exit behaviour: a process that has ended after an empty glob, a   *)
(* classifier error or a failed job has a non-zero exit status, and one    *)
(* that has ended with status zero has called the emitter for the overall  *)
(* report.  Fails where the runtime only warns of an unhandled rejection:  *)
(* the code sets no exit status itself.                                    *)
(***************************************************************************)
runFailed ==
  \/ pc # "glob" /\ files = <<>>
  \/ classifierFailed
  \/ \E n \in Jobs : inspections[n].status = "rejected"

C23_ExitStatus ==
  exited =>
    /\ runFailed => exitCode # 0
    /\ exitCode = 0 =>
         \E e \in DOMAIN emitted : emitted[e].level = "overall"

(***************************************************************************)
(* C24.  Out-of-order completion is tolerated: once every submitted job    *)
(* has succeeded, the tree is what the set of jobs makes it, whatever the  *)
(* order of completion was: each job's key holds the leaf of that job's    *)
(* report, and each category, each owner and the global root hold the      *)
(* records of the jobs below them, in some order.  Fails for the leaves    *)
(* when two jobs share a key (C7, C22): the leaf is the report of the one  *)
(* that completed last.                                                    *)
(***************************************************************************)
RECURSIVE reportsUnder(_, _, _)
reportsUnder(k, owner, type) ==
  IF k = 0 THEN <<>>
  ELSE reportsUnder(k - 1, owner, type)
         \o (IF inspections[k].owner = owner /\ inspections[k].type = type
             THEN inspections[k].report ELSE <<>>)

allSucceeded ==
  /\ Jobs # {}
  /\ \A n \in Jobs : inspections[n].status = "fulfilled"
  /\ ~summarized

C24_CompletionOrderIrrelevant ==
  allSucceeded =>
    /\ \A n \in Jobs :
         LET job == inspections[n]
         IN /\ hasLeaf(reportsMap, job.owner, job.type, job.module)
            /\ leafAt(reportsMap, job.owner, job.type, job.module)
                 = getOverviewReport(job.report)
    /\ Cardinality(treeLeaves)
         = Cardinality({ <<inspections[n].owner, inspections[n].type,
                           inspections[n].module>> : n \in Jobs })
    /\ sameRecords(globalSummary.items, jobRecords(Len(inspections), ""))
    /\ \A o \in OwnerNodes :
         /\ sameRecords(ownerSummary(o).items,
                        jobRecords(Len(inspections), reportsMap[o].k))
         /\ \A c \in Categories :
              sameRecords(categorySummary(o, c).items,
                          reportsUnder(Len(inspections), reportsMap[o].k, c))

(***************************************************************************)
(* C25.  Raw reports stay available until emission: once the summary pass  *)
(* has run, and so whenever a writer is called, the global root, every     *)
(* owner and every category hold, beside their summary, the records of all *)
(* the jobs below them, and every leaf holds, beside its summary, the      *)
(* records of the report of a job of its key.                              *)
(***************************************************************************)
holdsRecordsAndSummary(node, records) ==
  /\ node.tag = "overview"
  /\ sameRecords(node.reports, records)
  /\ node.summary.total = totalSloc(records)

RECURSIVE ownersItems(_)
ownersItems(k) ==
  IF k = 0 THEN <<>>
  ELSE ownersItems(k - 1)
         \o (IF k \in OwnerNodes THEN ownerSummary(k).items ELSE <<>>)

categoriesItems(o) ==
  categorySummary(o, "addons").items \o categorySummary(o, "engines").items
    \o categorySummary(o, "tests").items

C26_AccumulatorsConsistent ==
  ~summarized =>
    /\ globalSummary.tag = "list"
    /\ \A o \in OwnerNodes :
         /\ ownerSummary(o).tag = "list"
         /\ \A c \in Categories : categorySummary(o, c).tag = "list"
         /\ sameRecords(ownerSummary(o).items, categoriesItems(o))
    /\ sameRecords(globalSummary.items, ownersItems(Len(reportsMap)))
    /\ \A n \in Jobs :
         inspections[n].status = "fulfilled" =>
           \A r \in DOMAIN inspections[n].report :
             LET rec == inspections[n].report[r]
                 o == CHOOSE k \in OwnerNodes :
                        reportsMap[k].k = inspections[n].owner
             IN /\ occurrences(globalSummary.items, rec) = 1
                /\ occurrences(ownerSummary(o).items, rec) = 1
                /\ occurrences(categorySummary(o, inspections[n].type).items,
                               rec) = 1

(***************************************************************************)
(* C27.  The reserved key 'summary' is never confused with data: the owner *)
(* key of every job holds an owner subtree, never the global summary; no   *)
(* category's summary entry is replaced by a module leaf; and no callback  *)
(* throws a TypeError for want of a Map or of a list.  Fails for the owner *)
(* label 'summary' and for a module directory named 'summary'.             *)
(***************************************************************************)
C27_ReservedKeyNotData ==
  /\ \A n \in Jobs :
       /\ has(reportsMap, inspections[n].owner)
       /\ get(reportsMap, inspections[n].owner).tag = "map"
       /\ inspections[n].error # "TypeError"
  /\ ~summarized =>
       \A o \in OwnerNodes :
         /\ ownerSummary(o).tag = "list"
         /\ \A c \in Categories : categorySummary(o, c).tag = "list"

(***************************************************************************)
(* C28.  Frame of a merge: the step in which a job of key (o, c, m)        *)
(* settles adds no owner and removes none, leaves every other owner's      *)
(* subtree as it was, leaves the other two categories of o as they were,   *)
(* and in category c changes at most the entry of m, which it may add, and *)
(* the category's summary entry.                                           *)
(***************************************************************************)
frameOfCategory(old, new, module) ==
  /\ \A l \in DOMAIN old :
       /\ l \in DOMAIN new
       /\ new[l].k = old[l].k
       /\ old[l].k \notin {module, "summary"} => new[l] = old[l]
  /\ \/ Len(new) = Len(old)
     \/ Len(new) = Len(old) + 1 /\ new[Len(new)].k = module

frameOfMerge(job) ==
  /\ DOMAIN reportsMap' = DOMAIN reportsMap
  /\ \A n \in DOMAIN reportsMap :
       /\ reportsMap'[n].k = reportsMap[n].k
       /\ reportsMap[n].k \notin {job.owner, "summary"}
            => reportsMap'[n] = reportsMap[n]
  /\ IF get(reportsMap, job.owner).tag # "map"
     THEN reportsMap' = reportsMap
     ELSE LET old == get(reportsMap, job.owner).entries
              new == get(reportsMap', job.owner).entries
          IN /\ get(reportsMap', job.owner).tag = "map"
             /\ DOMAIN new = DOMAIN old
             /\ \A c \in Categories \ {job.type} : get(new, c) = get(old, c)
             /\ frameOfCategory(get(old, job.type).entries,
                                get(new, job.type).entries, job.module)

C28_MergeFrame ==
  [][\A j \in Jobs :
       (inspections[j].status = "executing" /\ inspections'[j].status # "executing")
         => frameOfMerge(inspections'[j])]_vars

\* two owners hold a leaf each: the later of the two merges met the other
\* owner's subtree
C28_Witness ==
  /\ Cardinality(OwnerNodes) = 2
  /\ ~summarized
  /\ \A o \in OwnerNodes :
       \E t \in treeLeaves : t[1] = reportsMap[o].k

(***************************************************************************)
(* C29.  A classifier whose output is blank does not abort the run: the    *)
(* module goes to the owner 'UNKOWN', its jobs are submitted under that    *)
(* owner, and no job and no key of the tree has the empty string as owner. *)
(* getModuleOwner throws exactly when the output holds 'Error', whether    *)
(* the classifier's process ended with an error or not.                    *)
(***************************************************************************)
resolved(run) == IF run.stdout = <<>> THEN run.stderr ELSE run.stdout
blank(run) == \A n \in DOMAIN resolved(run) : resolved(run)[n] \in {"\n", " "}
marked(run) == \E n \in DOMAIN resolved(run) : resolved(run)[n] = "Error"
abortedAt(e) == classifierFailed /\ e = Len(moduleLog)

C29_BlankOutputIsUnknown ==
  /\ \A n \in Jobs : inspections[n].owner # ""
  /\ \A n \in DOMAIN reportsMap : reportsMap[n].k # ""
  /\ classifierFailed => moduleLog[Len(moduleLog)].classifier.ran
  /\ \A e \in DOMAIN moduleLog :
       moduleLog[e].classifier.ran =>
         /\ abortedAt(e) <=> marked(moduleLog[e].classifier)
         /\ blank(moduleLog[e].classifier) =>
              /\ ~abortedAt(e)
              /\ has(reportsMap, "UNKOWN")
              /\ bodyJobs(e) # {}
              /\ \A n \in jobsOf(e) : inspections[n].owner = "UNKOWN"

\* a job has merged under 'UNKOWN' for a module whose classifier ended with
\* an error and printed nothing but a line end
C29_Witness ==
  \E e \in DOMAIN moduleLog :
    /\ moduleLog[e].classifier.error
    /\ blank(moduleLog[e].classifier)
    /\ \E n \in jobsOf(e) : /\ inspections[n].owner = "UNKOWN"
                            /\ inspections[n].status = "fulfilled"

(***************************************************************************)
(* C30.  Owner subtree creation is get-or-create and atomic: no owner key  *)
(* is twice in the tree; a step adds an owner only under a key the tree    *)
(* did not hold, and adds it empty; and no step takes an owner away or     *)
(* puts an empty subtree where one with a leaf or a record was.            *)
(***************************************************************************)
ownerCreatedOnce ==
  /\ \A n \in DOMAIN reportsMap :
       /\ n \in DOMAIN reportsMap'
       /\ reportsMap'[n].k = reportsMap[n].k
       /\ reportsMap'[n].v = newOwner => reportsMap[n].v = newOwner
  /\ \A n \in DOMAIN reportsMap' \ DOMAIN reportsMap :
       /\ ~has(reportsMap, reportsMap'[n].k)
       /\ reportsMap'[n].v = newOwner
  /\ \A n, m \in DOMAIN reportsMap' :
       reportsMap'[n].k = reportsMap'[m].k => n = m

C30_OwnerSubtreeCreatedOnce == [][ownerCreatedOnce]_vars

\* a second module was attributed to an owner whose subtree already held a
\* leaf
C30_Witness ==
  /\ pc = "stat"
  /\ i = 2
  /\ \E n \in Jobs :
       /\ inspections[n].currentModule = modules[1]
       /\ inspections[n].status = "fulfilled"
       /\ inspections[n].owner = moduleOwner

\* in the earlier variant: two flows awaited the classifier at once and were
\* given the same owner
concurrentResolution ==
  /\ Len(flows) = 2
  /\ flows[1].pc = "stat" /\ flows[2].pc = "stat"
  /\ flows[1].moduleOwner = flows[2].moduleOwner
  /\ flows[1].moduleOwner # ""

====
